---------------------------- MODULE Spec2Model ----------------------------
(***************************************************************************)
(* A model of the two plasma models of turbulence_models:                  *)
(*   - HasegawaMimaFourier (hasegawa_mima.py): construction of the         *)
(*     three-wave coupling tensor, solve, to_xarray;                       *)
(*   - HoleClump (hole_clump.py): construction, _encode, solve (pack,      *)
(*     derivative evaluation, post-processing), to_xarray.                 *)
(*                                                                         *)
(* Numbers.  Python floats are modelled by exact rationals [n, d] in       *)
(* lowest terms; the float NaN (np.mean of an empty array) is the one      *)
(* value [n |-> 0, d |-> 0], which every operation propagates.  Rounding   *)
(* is not modelled.  Complex numbers are pairs [re, im] of rationals.      *)
(*                                                                         *)
(* Arrays.  A numpy array is [shape, data]: its shape and its elements in  *)
(* C (row-major) order, so ravel, reshape, pad, slicing and broadcasting   *)
(* are computed on the flat data as numpy computes them.                   *)
(*                                                                         *)
(* The integrator.  scipy's solve_ivp is external to the repository; it is *)
(* modelled as a loop that evaluates the derivative function on the        *)
(* initial state, appends last column + derivative as a new column, and    *)
(* returns after at least one and at most MaxSteps evaluations.            *)
(***************************************************************************)
EXTENDS Integers, Sequences, FiniteSets, TLC

(* ------------------------------ bounds -------------------------------- *)
\* grid sizes nx, ny, nv range over 1..MaxN
MaxN == 5
\* kmax ranges over 1..MaxK
MaxK == 2
\* derivative evaluations the integrator makes before it returns
MaxSteps == 1

(* ----------------------------- rationals ------------------------------ *)
RECURSIVE GCD(_, _)
GCD(a, b) == IF b = 0 THEN a ELSE GCD(b, a % b)

Abs(a) == IF a < 0 THEN -a ELSE a

NaN == [n |-> 0, d |-> 0]

IsNaN(a) == a.d = 0

\* the rational n/d (d # 0) in lowest terms with a positive denominator
Rat(n, d) ==
    LET g == GCD(Abs(n), Abs(d))
        s == IF d < 0 THEN -1 ELSE 1
    IN  [n |-> s * (n \div g), d |-> s * (d \div g)]

R(i) == [n |-> i, d |-> 1]

\* a + b over the least common denominator
RAdd(a, b) ==
    IF IsNaN(a) \/ IsNaN(b) THEN NaN
    ELSE LET g == GCD(a.d, b.d)
         IN  Rat(a.n * (b.d \div g) + b.n * (a.d \div g), (a.d \div g) * b.d)

RNeg(a) == IF IsNaN(a) THEN NaN ELSE [n |-> -a.n, d |-> a.d]

RSub(a, b) == RAdd(a, RNeg(b))

\* a * b, cancelling across before multiplying
RMul(a, b) ==
    IF IsNaN(a) \/ IsNaN(b) THEN NaN
    ELSE LET g1 == GCD(Abs(a.n), b.d)
             g2 == GCD(Abs(b.n), a.d)
         IN  Rat((a.n \div g1) * (b.n \div g2), (a.d \div g2) * (b.d \div g1))

\* a / b; the model never divides by zero (kmax, xmax, vmax > 0)
RDiv(a, b) ==
    IF IsNaN(a) \/ IsNaN(b) \/ b.n = 0 THEN NaN
    ELSE RMul(a, Rat(b.d, b.n))

RIsZero(a) == ~IsNaN(a) /\ a.n = 0

\* np.isfinite on one element
IsFinite(a) == ~IsNaN(a)

(* -------------------------- complex numbers --------------------------- *)
Cx(re, im) == [re |-> re, im |-> im]

CAdd(a, b) == Cx(RAdd(a.re, b.re), RAdd(a.im, b.im))

CMul(a, b) == Cx(RSub(RMul(a.re, b.re), RMul(a.im, b.im)),
                 RAdd(RMul(a.re, b.im), RMul(a.im, b.re)))

\* a complex number times / divided by a real
CScale(r, a) == Cx(RMul(r, a.re), RMul(r, a.im))

CDivR(a, r) == Cx(RDiv(a.re, r), RDiv(a.im, r))

\* np.conj on one element
conj(a) == Cx(a.re, RNeg(a.im))

(* ------------------------------- arrays ------------------------------- *)
RECURSIVE Prod(_)
Prod(s) == IF s = <<>> THEN 1 ELSE Head(s) * Prod(Tail(s))

RECURSIVE SumSeq(_)
SumSeq(s) == IF s = <<>> THEN R(0) ELSE RAdd(Head(s), SumSeq(Tail(s)))

Arr(shape, data) == [shape |-> shape, data |-> data]

\* a Python scalar as a 0-d array
Scalar(x) == Arr(<<>>, <<x>>)

ndim(a) == Len(a.shape)

size(a) == Len(a.data)

\* a[i] of a 1-d array, a[i, j] of a 2-d array, a[i, j, t] of a 3-d array
\* (0-based, C order)
At1(a, i) == a.data[i + 1]

At2(a, i, j) == a.data[i * a.shape[2] + j + 1]

At3(a, i, j, t) == a.data[(i * a.shape[2] + j) * a.shape[3] + t + 1]

\* a.ravel(): the elements in C order as a 1-d array
ravel(a) == Arr(<<size(a)>>, a.data)

\* whether a.reshape(shape) succeeds (numpy raises ValueError otherwise)
CanReshape(a, shape) == Prod(shape) = size(a)

\* a.reshape(shape): same elements in C order under a new shape
reshape(a, shape) == Arr(shape, a.data)

\* [a]: a Python list holding one array, as np.concatenate sees it
ListOf(a) == Arr(<<1>> \o a.shape, a.data)

\* np.linspace(lo, hi, num) for rationals lo, hi and num >= 1
linspace(lo, hi, num) ==
    Arr(<<num>>,
        [p \in 1..num |->
            IF num = 1 THEN lo
            ELSE RAdd(lo, RMul(R(p - 1), RDiv(RSub(hi, lo), R(num - 1))))])

\* np.diff of a 1-d array
diff(a) ==
    Arr(<<size(a) - 1>>,
        [p \in 1..(size(a) - 1) |-> RSub(a.data[p + 1], a.data[p])])

\* np.mean of a 1-d array; the mean of an empty array is nan
mean(a) == IF size(a) = 0 THEN NaN ELSE RDiv(SumSeq(a.data), R(size(a)))

\* np.sum(a) with no axis: the sum of all elements
np_sum(a) == SumSeq(a.data)

(* ------------------------------ state --------------------------------- *)
VARIABLES
    kind,     \* which class the instance is: "HM" or "HC"
    args,     \* the constructor's arguments
    self,     \* the instance's fields
    ctor,     \* the constructor's position: [pc, ix, iy]
    pc,       \* per caller: where its solve / to_xarray call sequence stands
    inp,      \* per caller: the arguments of its solve call
    ivp,      \* per caller: the integrator's state [invoked, nfev, cols]
    result,   \* per caller: the result record solve returned
    dataset   \* per caller: what to_xarray returned

vars == <<kind, args, self, ctor, pc, inp, ivp, result, dataset>>

None == [none |-> TRUE]

(* ---------------- HasegawaMimaFourier: construction ------------------- *)
\* half_x = (nx - 1) // 2
half(n) == (n - 1) \div 2

\* np.broadcast_arrays(arange(nx)[:, newaxis], arange(ny)) raveled: the
\* partner's (jx, jy) at position p (1-based) of the flattened arrays
jxOf(p, ny) == (p - 1) \div ny

jyOf(p, ny) == (p - 1) % ny

\* j = jx * ny + jy
jOf(p, ny) == jxOf(p, ny) * ny + jyOf(p, ny)

\* lx = 3 * half_x - ix - jx (and ly likewise)
thirdIndex(n, i, j) == 3 * half(n) - i - j

\* valid_x = (0 <= lx) * (lx < nx)
valid(l, n) == 0 <= l /\ l < n

\* np.where(valid_x, lx, 0)
whereValid(l, n) == IF valid(l, n) THEN l ELSE 0

\* mutant of indexQ: the index wrapped into the grid instead of zeroed
indexQ_wrap(l, n) == l % n

\* the value stored in index_qx / index_qy: np.where(valid_x, lx, 0) applied
\* to the already clipped lx
indexQ(l, n) == IF valid(l, n) THEN whereValid(l, n) ELSE 0

\* self.k = np.stack(np.meshgrid(self.ky, self.kx), axis=-1): k[i, j] = (ky[j], kx[i])
meshK(kx, ky) ==
    LET nx == size(kx)
        ny == size(ky)
    IN  Arr(<<nx, ny, 2>>,
            [p \in 1..(nx * ny * 2) |->
                LET c == (p - 1) % 2
                    j == ((p - 1) \div 2) % ny
                    i == ((p - 1) \div 2) \div ny
                IN  IF c = 0 THEN At1(ky, j) ELSE At1(kx, i)])

\* self.k2 = np.sum(self.k ** 2, axis=-1)
sumSquares(k) ==
    LET nx == k.shape[1]
        ny == k.shape[2]
    IN  Arr(<<nx, ny>>,
            [p \in 1..(nx * ny) |->
                LET i == (p - 1) \div ny
                    j == (p - 1) % ny
                IN  RAdd(RMul(At3(k, i, j, 0), At3(k, i, j, 0)),
                         RMul(At3(k, i, j, 1), At3(k, i, j, 1)))])

\* np.zeros((nx, ny, nx * ny)) with the given zero element
zeros3(nx, ny, z) == Arr(<<nx, ny, nx * ny>>, [p \in 1..(nx * ny * nx * ny) |-> z])

\* a[ix, iy, j] = vals for index array j and value array vals
assignSlab(a, ix, iy, j, vals) ==
    LET m   == a.shape[3]
        off == (ix * a.shape[2] + iy) * m
    IN  Arr(a.shape,
            [q \in 1..size(a) |->
                IF q > off /\ q <= off + m /\ (\E p \in DOMAIN j : j[p] = q - off - 1)
                THEN vals[CHOOSE p \in DOMAIN j : j[p] = q - off - 1]
                ELSE a.data[q]])

\* the coupling coefficient of one partner:
\* np.where(valid_x * valid_y, (kx[jx] * qy - ky[jy] * qx) * q2, 0.0)
matEntry(s, jx, jy, lxRaw, lyRaw) ==
    LET nx == size(s.kx)
        ny == size(s.ky)
        lx == whereValid(lxRaw, nx)
        ly == whereValid(lyRaw, ny)
        qx == At1(s.kx, lx)
        qy == At1(s.ky, ly)
        q2 == At2(s.k2, lx, ly)
    IN  IF valid(lxRaw, nx) /\ valid(lyRaw, ny)
        THEN RMul(RSub(RMul(At1(s.kx, jx), qy), RMul(At1(s.ky, jy), qx)), q2)
        ELSE R(0)

\* np.where(valid_x * valid_y, k + kvec[j] + q, 0) for one partner
triadSum(kvec, kval, j, lRaw, bothValid) ==
    IF bothValid
    THEN RAdd(RAdd(kval, At1(kvec, j)), At1(kvec, whereValid(lRaw, size(kvec))))
    ELSE R(0)

\* 1 / atol of np.allclose (atol = 1e-8)
AtolInv == 100000000

\* np.allclose(a, 0) on a sequence of numbers: every |x| <= atol
allcloseZero(xs) ==
    \A p \in DOMAIN xs :
        ~IsNaN(xs[p]) /\ (xs[p].n # 0 => Abs(xs[p].n) <= xs[p].d \div AtolInv)

\* the two sanity-check assertions of one (ix, iy) iteration
sanityOK(s, ix, iy) ==
    LET nx == size(s.kx)
        ny == size(s.ky)
        P  == 1..(nx * ny)
        ok(p) == valid(thirdIndex(nx, ix, jxOf(p, ny)), nx)
                 /\ valid(thirdIndex(ny, iy, jyOf(p, ny)), ny)
        kxsum == [p \in P |-> triadSum(s.kx, At1(s.kx, ix), jxOf(p, ny),
                                       thirdIndex(nx, ix, jxOf(p, ny)), ok(p))]
        kysum == [p \in P |-> triadSum(s.ky, At1(s.ky, iy), jyOf(p, ny),
                                       thirdIndex(ny, iy, jyOf(p, ny)), ok(p))]
    IN  allcloseZero(kxsum) /\ allcloseZero(kysum)

\* the writes of one (ix, iy) iteration of _setup's loop
setupIter(s, ix, iy) ==
    LET nx == size(s.kx)
        ny == size(s.ky)
        P  == 1..(nx * ny)
        j  == [p \in P |-> jOf(p, ny)]
        lx == [p \in P |-> thirdIndex(nx, ix, jxOf(p, ny))]
        ly == [p \in P |-> thirdIndex(ny, iy, jyOf(p, ny))]
    IN  [s EXCEPT
            !.index_px = assignSlab(@, ix, iy, j, [p \in P |-> jxOf(p, ny)]),
            !.index_py = assignSlab(@, ix, iy, j, [p \in P |-> jyOf(p, ny)]),
            !.index_qx = assignSlab(@, ix, iy, j, [p \in P |-> indexQ(lx[p], nx)]),
            !.index_qy = assignSlab(@, ix, iy, j, [p \in P |-> indexQ(ly[p], ny)]),
            !.mat      = assignSlab(@, ix, iy, j,
                            [p \in P |-> matEntry(s, jxOf(p, ny), jyOf(p, ny), lx[p], ly[p])])]

\* __init__ up to the loop of _setup: the grids and the zeroed tensors
hmFields(kmax, nx, ny) ==
    LET kx == linspace(R(-kmax), R(kmax), nx)
        ky == linspace(R(-kmax), R(kmax), ny)
        k  == meshK(kx, ky)
    IN  [kx |-> kx, ky |-> ky, k |-> k, k2 |-> sumSquares(k),
         mat      |-> zeros3(nx, ny, R(0)),
         index_px |-> zeros3(nx, ny, 0),
         index_py |-> zeros3(nx, ny, 0),
         index_qx |-> zeros3(nx, ny, 0),
         index_qy |-> zeros3(nx, ny, 0)]

\* HasegawaMimaFourier.__init__ entered: the two parity assertions, the
\* grids, and _setup up to its loop
HM_init ==
    /\ kind = "HM" /\ ctor.pc = "new"
    /\ IF args.nx % 2 = 1 /\ args.ny % 2 = 1
       THEN /\ self' = hmFields(args.kmax, args.nx, args.ny)
            /\ ctor' = [pc |-> "setup", ix |-> 0, iy |-> 0]
       ELSE /\ self' = self
            /\ ctor' = [ctor EXCEPT !.pc = "AssertionError"]
    /\ UNCHANGED <<kind, args, pc, inp, ivp, result, dataset>>

\* one iteration of the loop over (ix, iy): the tensor writes, then the
\* sanity check; the constructor returns after the last iteration
HM_setup ==
    /\ kind = "HM" /\ ctor.pc = "setup"
    /\ self' = setupIter(self, ctor.ix, ctor.iy)
    /\ IF ~sanityOK(self, ctor.ix, ctor.iy)
       THEN ctor' = [ctor EXCEPT !.pc = "AssertionError"]
       ELSE IF ctor.iy + 1 < args.ny
            THEN ctor' = [ctor EXCEPT !.iy = @ + 1]
            ELSE IF ctor.ix + 1 < args.nx
                 THEN ctor' = [ctor EXCEPT !.ix = @ + 1, !.iy = 0]
                 ELSE ctor' = [ctor EXCEPT !.pc = "built"]
    /\ UNCHANGED <<kind, args, pc, inp, ivp, result, dataset>>

(* ------------------------- the integrator ----------------------------- *)
\* the integrator's state before solve_ivp is called
ivpIdle == [invoked |-> FALSE, nfev |-> 0, cols |-> <<>>]

\* solve_ivp called with the flat initial state y0
ivpStart(y0) == [invoked |-> TRUE, nfev |-> 0, cols |-> <<y0.data>>]

\* the solution matrix y of shape (n, ntime): y[k, t] = cols[t][k]
ivpMatrix(cols) ==
    LET ntime == Len(cols)
        n     == Len(cols[1])
    IN  Arr(<<n, ntime>>,
            [p \in 1..(n * ntime) |-> cols[((p - 1) % ntime) + 1][((p - 1) \div ntime) + 1]])

\* the time points of the result
ivpTimes(cols) == Arr(<<Len(cols)>>, [p \in 1..Len(cols) |-> R(p - 1)])

(* ------------------- HasegawaMimaFourier: solve ------------------------ *)
\* the shape property: self.k2.shape
hmShape(s) == s.k2.shape

\* dfdt of HasegawaMimaFourier.solve on a flat state phi (a sequence of
\* complex numbers whose length is nx * ny)
hm_dfdt(s, flat) ==
    LET nx   == hmShape(s)[1]
        ny   == hmShape(s)[2]
        phi  == reshape(Arr(<<Len(flat)>>, flat), hmShape(s))
        phic == Arr(phi.shape, [p \in 1..size(phi) |-> conj(phi.data[p])])
        term(ix, iy, j) ==
            CMul(CScale(At3(s.mat, ix, iy, j),
                        At2(phic, At3(s.index_px, ix, iy, j), At3(s.index_py, ix, iy, j))),
                 At2(phic, At3(s.index_qx, ix, iy, j), At3(s.index_qy, ix, iy, j)))
        terms(ix, iy) == [j \in 1..(nx * ny) |-> term(ix, iy, j - 1)]
        csum(ts) == Cx(SumSeq([q \in DOMAIN ts |-> ts[q].re]),
                       SumSeq([q \in DOMAIN ts |-> ts[q].im]))
        dphi(ix, iy) ==
            CAdd(CMul(Cx(R(0), RNeg(At1(s.ky, iy))), At2(phi, ix, iy)),
                 csum(terms(ix, iy)))
    IN  [p \in 1..(nx * ny) |->
            LET ix == (p - 1) \div ny
                iy == (p - 1) % ny
            IN  CDivR(dphi(ix, iy), RAdd(R(1), At2(s.k2, ix, iy)))]

\* state + derivative, elementwise, for complex states
cstep(y, dy) == [p \in DOMAIN y |-> CAdd(y[p], dy[p])]

\* solve entered: phiinit is raveled and handed to solve_ivp; the code makes
\* no check of phiinit's shape
HM_solve(c, phiinit) ==
    /\ kind = "HM" /\ ctor.pc = "built" /\ pc[c] = "idle"
    /\ inp' = [inp EXCEPT ![c] = [phiinit |-> phiinit]]
    /\ ivp' = [ivp EXCEPT ![c] = ivpStart(ravel(phiinit))]
    /\ pc' = [pc EXCEPT ![c] = "integrating"]
    /\ UNCHANGED <<kind, args, self, ctor, result, dataset>>

\* the integrator evaluates dfdt on the initial state; np.reshape raises
\* ValueError when the state does not hold nx * ny elements
HM_dfdt(c) ==
    /\ kind = "HM" /\ pc[c] = "integrating" /\ ivp[c].nfev < MaxSteps
    /\ LET y0 == ivp[c].cols[1]
           y  == ivp[c].cols[Len(ivp[c].cols)]
       IN  IF CanReshape(Arr(<<Len(y0)>>, y0), hmShape(self))
           THEN /\ ivp' = [ivp EXCEPT ![c].nfev = @ + 1,
                                      ![c].cols = Append(@, cstep(y, hm_dfdt(self, y0)))]
                /\ pc' = pc
           ELSE /\ ivp' = [ivp EXCEPT ![c].nfev = @ + 1]
                /\ pc' = [pc EXCEPT ![c] = "ValueError"]
    /\ UNCHANGED <<kind, args, self, ctor, inp, result, dataset>>

\* the result record solve returns: the integrator's, with
\* result["y"] = result["y"].reshape(self.shape + (len(result["t"]),))
hmResult(s, cols) ==
    LET y == ivpMatrix(cols)
        t == ivpTimes(cols)
    IN  [t |-> t, y |-> reshape(y, hmShape(s) \o <<size(t)>>),
         status |-> 0, success |-> TRUE]

\* solve_ivp returns; result["y"] is reshaped to shape + (ntime,)
HM_return(c) ==
    /\ kind = "HM" /\ pc[c] = "integrating" /\ ivp[c].nfev >= 1
    /\ result' = [result EXCEPT ![c] = hmResult(self, ivp[c].cols)]
    /\ pc' = [pc EXCEPT ![c] = "done"]
    /\ UNCHANGED <<kind, args, self, ctor, inp, ivp, dataset>>

\* to_xarray: a dataset built from the result and the grids
HM_to_xarray(c) ==
    /\ kind = "HM" /\ pc[c] = "done"
    /\ dataset' = [dataset EXCEPT ![c] =
                      [phi |-> result[c].y, status |-> result[c].status,
                       success |-> result[c].success,
                       coords |-> [kx |-> self.kx, ky |-> self.ky, time |-> result[c].t]]]
    /\ pc' = [pc EXCEPT ![c] = "exported"]
    /\ UNCHANGED <<kind, args, self, ctor, inp, ivp, result>>

(* ------------------------- inputs of HM.solve -------------------------- *)
\* element p (1-based, C order) of the initial field of pattern q:
\* 1: 1 + 1j everywhere (the test's field); 2: all elements distinct
phiPattern(q, p) == IF q = 1 THEN Cx(R(1), R(1)) ELSE Cx(R(p), R(1 - p))

PhiPatterns == {1, 2}

phiOf(shape, q) == Arr(shape, [p \in 1..Prod(shape) |-> phiPattern(q, p)])

\* the shapes tried: the grid's, its transpose, and one with more elements
HMShapes ==
    IF kind = "HM"
    THEN {<<args.nx, args.ny>>, <<args.ny, args.nx>>, <<args.nx, args.ny + 1>>}
    ELSE {}

(* -------------------- HoleClump: construction -------------------------- *)
\* e**2 / me / eps0 = 3182.6..., rounded to an integer
coef == 3183

\* HoleClump.__init__: the grids, their spacings and the parameters
hcFields(a) ==
    LET x == linspace(R(-a.xmax), R(a.xmax), a.nx)
        v == linspace(R(-a.vmax), R(a.vmax), a.nv)
    IN  [nx |-> a.nx, nv |-> a.nv,
         x |-> x, dx |-> mean(diff(x)),
         v |-> v, dv |-> mean(diff(v)),
         eps0 |-> "eps0", nu |-> R(a.nu), ne |-> R(a.ne),
         omega_p |-> [sqrt |-> RMul(R(a.ne), R(coef))]]

HC_init ==
    /\ kind = "HC" /\ ctor.pc = "new"
    /\ self' = hcFields(args)
    /\ ctor' = [ctor EXCEPT !.pc = "built"]
    /\ UNCHANGED <<kind, args, pc, inp, ivp, result, dataset>>

(* ------------------------ HoleClump._encode ---------------------------- *)
\* mutant of encode: V and E read from each other's slot
encode_swapped(s, f) ==
    [F |-> reshape(Arr(<<s.nx * s.nv>>, SubSeq(f.data, 1, s.nx * s.nv)), <<s.nx, s.nv>>),
     V |-> At1(f, s.nx * s.nv + 1),
     E |-> At1(f, s.nx * s.nv)]

\* _encode(f) with include_time=False on a 1-d array f:
\* F = f[:nx*nv].reshape(nx, nv), V = f[nx*nv], E = f[nx*nv + 1]
encode(s, f) ==
    [F |-> reshape(Arr(<<s.nx * s.nv>>, SubSeq(f.data, 1, s.nx * s.nv)), <<s.nx, s.nv>>),
     V |-> At1(f, s.nx * s.nv),
     E |-> At1(f, s.nx * s.nv + 1)]

\* row m of a 2-d array: y[m]
rowOf(y, m) == Arr(<<y.shape[2]>>, SubSeq(y.data, m * y.shape[2] + 1, (m + 1) * y.shape[2]))

\* mutant of encodeTime: the time axis put first, reshape(-1, nx, nv)
encodeTime_timeFirst(s, f) ==
    LET ntime == f.shape[2]
        top   == Arr(<<s.nx * s.nv, ntime>>, SubSeq(f.data, 1, s.nx * s.nv * ntime))
    IN  [F |-> reshape(top, <<size(top) \div (s.nx * s.nv), s.nx, s.nv>>),
         V |-> rowOf(f, s.nx * s.nv),
         E |-> rowOf(f, s.nx * s.nv + 1)]

\* _encode(f, include_time=True) on the solution matrix f of shape (n, ntime):
\* F = f[:nx*nv, :].reshape(nx, nv, -1), V = f[nx*nv], E = f[nx*nv + 1]
encodeTime(s, f) ==
    LET ntime == f.shape[2]
        top   == Arr(<<s.nx * s.nv, ntime>>, SubSeq(f.data, 1, s.nx * s.nv * ntime))
    IN  [F |-> reshape(top, <<s.nx, s.nv, size(top) \div (s.nx * s.nv)>>),
         V |-> rowOf(f, s.nx * s.nv),
         E |-> rowOf(f, s.nx * s.nv + 1)]

(* ----------------------- HoleClump.solve: dfdt ------------------------- *)
\* mutant of padWrap: mode 'edge', the border rows repeated
padEdge(f) ==
    LET r == f.shape[1]
        c == f.shape[2]
    IN  Arr(<<r + 2, c>>,
            [p \in 1..((r + 2) * c) |->
                LET i == (p - 1) \div c
                    j == (p - 1) % c
                IN  At2(f, IF i = 0 THEN 0 ELSE IF i = r + 1 THEN r - 1 ELSE i - 1, j)])

\* np.pad(f, [(1, 1), (0, 0)], 'wrap'): one row before (the last row) and
\* one after (the first row)
padWrap(f) ==
    LET r == f.shape[1]
        c == f.shape[2]
    IN  Arr(<<r + 2, c>>,
            [p \in 1..((r + 2) * c) |->
                LET i == (p - 1) \div c
                    j == (p - 1) % c
                IN  At2(f, (i - 1 + r) % r, j)])

\* np.pad(g, [(0, 0), (1, 1)], 'constant', constant_values=0)
padZero(g) ==
    LET r == g.shape[1]
        c == g.shape[2]
    IN  Arr(<<r, c + 2>>,
            [p \in 1..(r * (c + 2)) |->
                LET i == (p - 1) \div (c + 2)
                    j == (p - 1) % (c + 2)
                IN  IF j = 0 \/ j = c + 1 THEN R(0) ELSE At2(g, i, j - 1)])

\* the slice a[r0:r1, c0:c1] (0 <= r0 <= r1 <= rows, 0 <= c0 <= c1 <= cols)
slice2(a, r0, r1, c0, c1) ==
    Arr(<<r1 - r0, c1 - c0>>,
        [p \in 1..((r1 - r0) * (c1 - c0)) |->
            At2(a, r0 + ((p - 1) \div (c1 - c0)), c0 + ((p - 1) % (c1 - c0)))])

\* (a - b) / (2 * h) elementwise for arrays of one shape
centered(a, b, h) ==
    Arr(a.shape, [p \in 1..size(a) |-> RDiv(RSub(a.data[p], b.data[p]), RMul(R(2), h))])

\* f_pad of dfdt
fPad(f) == padZero(padWrap(f))

\* dfdx = (f_pad[2:, 1:-1] - f_pad[:-2, 1:-1]) / (2 * self.dx)
dfdxOf(s, f) ==
    LET fp == fPad(f)
        r  == fp.shape[1]
        c  == fp.shape[2]
    IN  centered(slice2(fp, 2, r, 1, c - 1), slice2(fp, 0, r - 2, 1, c - 1), s.dx)

\* dfdv = (f_pad[1:-1, 2:] - f_pad[1:-1, :-2]) / (2 * self.dv)
dfdvOf(s, f) ==
    LET fp == fPad(f)
        r  == fp.shape[1]
        c  == fp.shape[2]
    IN  centered(slice2(fp, 1, r - 1, 2, c), slice2(fp, 1, r - 1, 0, c - 2), s.dv)

\* dfdt = -self.v * dfdx + E * dfdv: self.v (shape (nv,)) broadcasts along
\* the last axis
dFdtOf(s, f, E) ==
    LET dfdx == dfdxOf(s, f)
        dfdv == dfdvOf(s, f)
        c    == f.shape[2]
    IN  Arr(dfdx.shape,
            [p \in 1..size(dfdx) |->
                RAdd(RMul(RNeg(At1(s.v, (p - 1) % c)), dfdx.data[p]),
                     RMul(E, dfdv.data[p]))])

\* dvdt = -E - self.nu * V
dvdtOf(s, V, E) == RSub(RNeg(E), RMul(s.nu, V))

\* f * self.v: self.v broadcasts along the last axis
timesV(s, f) ==
    Arr(f.shape, [p \in 1..size(f) |-> RMul(f.data[p], At1(s.v, (p - 1) % f.shape[2]))])

\* mutant of momentOf: the velocity factor dropped, np.sum(f)
momentOf_noV(s, f) == np_sum(f)

\* the moment np.sum(f * self.v): no axis is given, so every element is summed
momentOf(s, f) == np_sum(timesV(s, f))

\* dEdt = coef * (self.ne * V + np.sum(f * self.v) * self.dv)
dEdtOf(s, f, V) == RMul(R(coef), RAdd(RMul(s.ne, V), RMul(momentOf(s, f), s.dv)))

\* dfdt of HoleClump.solve on a flat state: decode, differentiate,
\* np.concatenate([dfdt.ravel(), [dvdt], [dEdt]])
hc_dfdt(s, flat) ==
    LET d == encode(s, Arr(<<Len(flat)>>, flat))
    IN  ravel(dFdtOf(s, d.F, d.E)).data \o <<dvdtOf(s, d.V, d.E)>> \o <<dEdtOf(s, d.F, d.V)>>

\* state + derivative, elementwise
rstep(y, dy) == [p \in DOMAIN y |-> RAdd(y[p], dy[p])]

(* --------------------------- HoleClump.solve --------------------------- *)
\* mutant of shapeOK: the number of elements compared instead of the shape
shapeOK_size(s, finit) == size(finit) = s.nx * s.nv

\* assert finit.shape == (self.nx, self.nv)
shapeOK(s, finit) == finit.shape = <<s.nx, s.nv>>

\* whether np.concatenate accepts the parts: all of one number of dimensions
canConcatenate(parts) == \A p, q \in DOMAIN parts : ndim(parts[p]) = ndim(parts[q])

\* np.concatenate of 1-d arrays
concatenate(parts) ==
    LET data == parts[1].data \o parts[2].data \o parts[3].data
    IN  Arr(<<Len(data)>>, data)

\* the parts of the pack step: [finit.ravel(), [vinit], [einit]]
packParts(finit, vinit, einit) == <<ravel(finit), ListOf(vinit), ListOf(einit)>>

\* solve entered: the shape assertion, the pack step, the call of solve_ivp
HC_solve(c, finit, vinit, einit) ==
    /\ kind = "HC" /\ ctor.pc = "built" /\ pc[c] = "idle"
    /\ inp' = [inp EXCEPT ![c] = [finit |-> finit, vinit |-> vinit, einit |-> einit]]
    /\ IF ~shapeOK(self, finit)
       THEN /\ pc' = [pc EXCEPT ![c] = "AssertionError"]
            /\ ivp' = ivp
       ELSE IF ~canConcatenate(packParts(finit, vinit, einit))
            THEN /\ pc' = [pc EXCEPT ![c] = "ValueError"]
                 /\ ivp' = ivp
            ELSE /\ pc' = [pc EXCEPT ![c] = "integrating"]
                 /\ ivp' = [ivp EXCEPT ![c] =
                               ivpStart(concatenate(packParts(finit, vinit, einit)))]
    /\ UNCHANGED <<kind, args, self, ctor, result, dataset>>

\* mutant of HC_dfdt: the velocity grid negated in place (self.v *= -1)
\* instead of the temporary -self.v
HC_dfdt_inplace(c) ==
    /\ kind = "HC" /\ pc[c] = "integrating" /\ ivp[c].nfev < MaxSteps
    /\ LET y0 == ivp[c].cols[1]
           y  == ivp[c].cols[Len(ivp[c].cols)]
       IN  ivp' = [ivp EXCEPT ![c].nfev = @ + 1,
                              ![c].cols = Append(@, rstep(y, hc_dfdt(self, y0)))]
    /\ self' = [self EXCEPT !.v = Arr(@.shape, [p \in 1..size(@) |-> RNeg(@.data[p])])]
    /\ UNCHANGED <<kind, args, ctor, pc, inp, result, dataset>>

\* the integrator evaluates dfdt on the initial state
HC_dfdt(c) ==
    /\ kind = "HC" /\ pc[c] = "integrating" /\ ivp[c].nfev < MaxSteps
    /\ LET y0 == ivp[c].cols[1]
           y  == ivp[c].cols[Len(ivp[c].cols)]
       IN  ivp' = [ivp EXCEPT ![c].nfev = @ + 1,
                              ![c].cols = Append(@, rstep(y, hc_dfdt(self, y0)))]
    /\ UNCHANGED <<kind, args, self, ctor, pc, inp, result, dataset>>

\* the result record solve returns: the integrator's, with
\* result["f"], result["V"], result["E"] = self._encode(result["y"], include_time=True)
hcResult(s, cols) ==
    LET y == ivpMatrix(cols)
        d == encodeTime(s, y)
    IN  [t |-> ivpTimes(cols), y |-> y, status |-> 0, success |-> TRUE,
         f |-> d.F, V |-> d.V, E |-> d.E]

\* solve_ivp returns; the trajectory is decoded into result["f"], ["V"], ["E"]
HC_return(c) ==
    /\ kind = "HC" /\ pc[c] = "integrating" /\ ivp[c].nfev >= 1
    /\ result' = [result EXCEPT ![c] = hcResult(self, ivp[c].cols)]
    /\ pc' = [pc EXCEPT ![c] = "done"]
    /\ UNCHANGED <<kind, args, self, ctor, inp, ivp, dataset>>

\* to_xarray: a dataset built from the result and the grids
HC_to_xarray(c) ==
    /\ kind = "HC" /\ pc[c] = "done"
    /\ dataset' = [dataset EXCEPT ![c] =
                      [F |-> result[c].f, V |-> result[c].V, E |-> result[c].E,
                       status |-> result[c].status, success |-> result[c].success,
                       coords |-> [x |-> self.x, v |-> self.v, time |-> result[c].t]]]
    /\ pc' = [pc EXCEPT ![c] = "exported"]
    /\ UNCHANGED <<kind, args, self, ctor, inp, ivp, result>>

(* ------------------------ inputs of HC.solve --------------------------- *)
\* element p (1-based, C order) of the initial F of pattern q:
\* 1: all elements distinct; 2: small values of both signs
fPattern(q, p) == IF q = 1 THEN R(p) ELSE R(((p * p) % 5) - 2)

FPatterns == {1, 2}

finitOf(shape, q) == Arr(shape, [p \in 1..Prod(shape) |-> fPattern(q, p)])

\* the shapes tried: the grid's, its transpose, and one with more elements
HCShapes ==
    IF kind = "HC"
    THEN {<<args.nx, args.nv>>, <<args.nv, args.nx>>, <<args.nx, args.nv + 1>>}
    ELSE {}

\* a 1-d array of n values, as the test draws vinit and einit
vectorOf(n, a) == Arr(<<n>>, [p \in 1..n |-> R(a + p)])

\* (vinit, einit): scalars, or the test's two 1-d arrays of nx values
VEInits ==
    {<<Scalar(R(0)), Scalar(R(1))>>, <<Scalar(R(2)), Scalar(R(-1))>>,
     <<vectorOf(args.nx, 0), vectorOf(args.nx, -2)>>}

\* the constructor arguments besides the grid sizes
HCParams ==
    {[xmax |-> 1, vmax |-> 1, nu |-> 1, ne |-> 1],
     [xmax |-> 2, vmax |-> 3, nu |-> 2, ne |-> 3]}

(* --------------------------- specification ----------------------------- *)
Callers1 == {"a"}

HMArgs == [kmax : 1..MaxK, nx : 1..MaxN, ny : 1..MaxN]

HCArgs == {[xmax |-> q.xmax, vmax |-> q.vmax, nx |-> n, nv |-> m, nu |-> q.nu, ne |-> q.ne] :
              q \in HCParams, n \in 1..MaxN, m \in 1..MaxN}

\* before the constructor runs: a class and its arguments are chosen
InitWith(callers, hmArgs, hcArgs) ==
    /\ \/ kind = "HM" /\ args \in hmArgs
       \/ kind = "HC" /\ args \in hcArgs
    /\ self = None
    /\ ctor = [pc |-> "new", ix |-> 0, iy |-> 0]
    /\ pc = [c \in callers |-> "idle"]
    /\ inp = [c \in callers |-> None]
    /\ ivp = [c \in callers |-> ivpIdle]
    /\ result = [c \in callers |-> None]
    /\ dataset = [c \in callers |-> None]

Init == InitWith(Callers1, HMArgs, HCArgs)

Next ==
    \/ HM_init
    \/ HM_setup
    \/ \E c \in DOMAIN pc, shape \in HMShapes, q \in PhiPatterns : HM_solve(c, phiOf(shape, q))
    \/ \E c \in DOMAIN pc : HM_dfdt(c)
    \/ \E c \in DOMAIN pc : HM_return(c)
    \/ \E c \in DOMAIN pc : HM_to_xarray(c)
    \/ HC_init
    \/ \E c \in DOMAIN pc, shape \in HCShapes, q \in FPatterns, ve \in VEInits :
           HC_solve(c, finitOf(shape, q), ve[1], ve[2])
    \/ \E c \in DOMAIN pc : HC_dfdt(c)
    \/ \E c \in DOMAIN pc : HC_return(c)
    \/ \E c \in DOMAIN pc : HC_to_xarray(c)

Spec == Init /\ [][Next]_vars

\* two callers sharing one instance, their calls interleaved step by step
Callers2 == {"a", "b"}

HMArgsConc == {[kmax |-> 1, nx |-> 3, ny |-> 3], [kmax |-> 2, nx |-> 3, ny |-> 3]}

HCArgsConc == {[xmax |-> q.xmax, vmax |-> q.vmax, nx |-> n[1], nv |-> n[2],
                nu |-> q.nu, ne |-> q.ne] : q \in HCParams, n \in {<<2, 3>>, <<3, 2>>}}

InitConc == InitWith(Callers2, HMArgsConc, HCArgsConc)

SpecConc == InitConc /\ [][Next]_vars

(* =============================== claims ================================ *)
HMBuilt == kind = "HM" /\ ctor.pc = "built"

HCBuilt == kind = "HC" /\ ctor.pc = "built"

\* the index triples (ix, iy, j) of the coupling tensor
Triples == IF kind = "HM"
           THEN (0..(args.nx - 1)) \X (0..(args.ny - 1)) \X (0..(args.nx * args.ny - 1))
           ELSE {}

\* partner j's grid indices
JX(j) == j \div args.ny

JY(j) == j % args.ny

\* the third wavevector's raw grid indices of triple tr
LX(tr) == 3 * half(args.nx) - tr[1] - JX(tr[3])

LY(tr) == 3 * half(args.ny) - tr[2] - JY(tr[3])

\* triad closure of triple tr at the stored third index: in wavenumbers and
\* in grid indices
Closure(tr) ==
    LET qx == At3(self.index_qx, tr[1], tr[2], tr[3])
        qy == At3(self.index_qy, tr[1], tr[2], tr[3])
    IN  /\ RIsZero(RAdd(RAdd(At1(self.kx, tr[1]), At1(self.kx, JX(tr[3]))), At1(self.kx, qx)))
        /\ RIsZero(RAdd(RAdd(At1(self.ky, tr[2]), At1(self.ky, JY(tr[3]))), At1(self.ky, qy)))
        /\ (tr[1] - half(args.nx)) + (JX(tr[3]) - half(args.nx)) + (qx - half(args.nx)) = 0
        /\ (tr[2] - half(args.ny)) + (JY(tr[3]) - half(args.ny)) + (qy - half(args.ny)) = 0

\* C1: for every odd nx, ny and kmax > 0 the constructor completes without
\* tripping its sanity-check assertions, and every nonzero entry of mat
\* belongs to a closed triad (kx[ix] + kx[jx] + kx[index_qx] = 0, likewise
\* in y, and the same in grid indices).
C1_ConstructsAndCloses ==
    (kind = "HM" /\ args.nx % 2 = 1 /\ args.ny % 2 = 1) =>
        /\ ctor.pc # "AssertionError"
        /\ ctor.pc = "built" =>
              \A tr \in Triples :
                  ~RIsZero(At3(self.mat, tr[1], tr[2], tr[3])) => Closure(tr)

\* the part of C1 that the code keeps: whenever construction completes,
\* every nonzero entry of mat belongs to a closed triad
C1_ClosureWhenBuilt ==
    HMBuilt => \A tr \in Triples :
                   ~RIsZero(At3(self.mat, tr[1], tr[2], tr[3])) => Closure(tr)

\* the constructor completed for some grid with a nonzero coupling
C1_BuiltNonzero ==
    HMBuilt /\ \E tr \in Triples : ~RIsZero(At3(self.mat, tr[1], tr[2], tr[3]))

\* C9 (as stated): after construction, every triad whose lx or ly falls
\* outside the grid has mat = 0, index_qx = 0 and index_qy = 0.
C9_InvalidAllZeroed ==
    HMBuilt =>
        \A tr \in Triples :
            (~valid(LX(tr), args.nx) \/ ~valid(LY(tr), args.ny)) =>
                /\ RIsZero(At3(self.mat, tr[1], tr[2], tr[3]))
                /\ At3(self.index_qx, tr[1], tr[2], tr[3]) = 0
                /\ At3(self.index_qy, tr[1], tr[2], tr[3]) = 0

\* C9 (amended): after construction, every triad whose lx or ly falls
\* outside the grid has mat = 0; index_qx is 0 when lx is outside and lx
\* otherwise, index_qy is 0 when ly is outside and ly otherwise (no wrap).
C9_InvalidZeroedPerAxis ==
    HMBuilt =>
        \A tr \in Triples :
            (~valid(LX(tr), args.nx) \/ ~valid(LY(tr), args.ny)) =>
                /\ RIsZero(At3(self.mat, tr[1], tr[2], tr[3]))
                /\ At3(self.index_qx, tr[1], tr[2], tr[3])
                      = (IF valid(LX(tr), args.nx) THEN LX(tr) ELSE 0)
                /\ At3(self.index_qy, tr[1], tr[2], tr[3])
                      = (IF valid(LY(tr), args.ny) THEN LY(tr) ELSE 0)

\* an invalid triad of a built model, out of range in x, in range in y
C9_InvalidTriadBuilt ==
    HMBuilt /\ \E tr \in Triples :
                   /\ ~valid(LX(tr), args.nx) /\ valid(LY(tr), args.ny)
                   /\ LY(tr) # 0

\* C4: HasegawaMimaFourier.solve called with a phiinit whose shape is not
\* (nx, ny) fails at call entry with an assertion failure, before the
\* integrator is invoked and before any derivative is evaluated.
C4_ShapeMismatchFailsAtEntry ==
    \A c \in DOMAIN pc :
        (kind = "HM" /\ pc[c] # "idle" /\ inp[c].phiinit.shape # <<args.nx, args.ny>>) =>
            /\ pc[c] = "AssertionError"
            /\ ~ivp[c].invoked
            /\ ivp[c].nfev = 0

(* --------------------------- HoleClump claims -------------------------- *)
\* caller c has called HoleClump.solve
HCCalled(c) == kind = "HC" /\ pc[c] # "idle"

\* caller c's solve reached the integrator: the packed vector is cols[1]
HCPacked(c) == HCCalled(c) /\ ivp[c].invoked

\* the integrator of caller c has evaluated the derivative at the packed state
HCEvaluated(c) == HCPacked(c) /\ ivp[c].nfev >= 1

\* the packed state vector of caller c and the derivative the code returned
\* for it (second column minus first)
Packed(c) == ivp[c].cols[1]

Deriv(c) == [p \in DOMAIN Packed(c) |-> RSub(ivp[c].cols[2][p], ivp[c].cols[1][p])]

\* the set of grid index pairs (i, j)
Cells == IF kind = "HC" THEN (0..(args.nx - 1)) \X (0..(args.nv - 1)) ELSE {}

\* C2: HoleClump.solve called with a finit whose shape is not (nx, nv)
\* fails with an assertion failure at call entry: the integrator is never
\* invoked, the derivative is never evaluated, no result record is produced.
C2_ShapeMismatchFailsAtEntry ==
    \A c \in DOMAIN pc :
        (HCCalled(c) /\ inp[c].finit.shape # <<args.nx, args.nv>>) =>
            /\ pc[c] = "AssertionError"
            /\ ~ivp[c].invoked
            /\ ivp[c].nfev = 0
            /\ result[c] = None
            /\ dataset[c] = None

\* a transposed finit with the right number of elements was rejected
C2_TransposedRejected ==
    \E c \in DOMAIN pc :
        /\ HCCalled(c) /\ pc[c] = "AssertionError"
        /\ inp[c].finit.shape = <<args.nv, args.nx>>
        /\ args.nx # args.nv

\* C3: the packed state vector has length nx * nv + 2 with V at index nx * nv
\* and E at index nx * nv + 1, and _encode of it returns exactly (F, V, E):
\* F[i, j] = vector[i * nv + j].
C3_PackEncodeRoundTrip ==
    \A c \in DOMAIN pc :
        HCPacked(c) =>
            LET y == Arr(<<Len(Packed(c))>>, Packed(c))
                d == encode(self, y)
            IN  /\ size(y) = args.nx * args.nv + 2
                /\ At1(y, args.nx * args.nv) = inp[c].vinit.data[1]
                /\ At1(y, args.nx * args.nv + 1) = inp[c].einit.data[1]
                /\ d.F = inp[c].finit
                /\ d.V = inp[c].vinit.data[1]
                /\ d.E = inp[c].einit.data[1]
                /\ \A ij \in Cells : At2(d.F, ij[1], ij[2]) = At1(y, ij[1] * args.nv + ij[2])

\* a non-square grid with several rows and columns was packed
C3_PackedNonSquare ==
    \E c \in DOMAIN pc :
        HCPacked(c) /\ args.nx >= 2 /\ args.nv >= 2 /\ args.nx # args.nv
        /\ inp[c].vinit.data[1] # inp[c].einit.data[1]

\* C5: solve called as test_hole_clump calls it (finit of shape (nx, nv),
\* vinit and einit each a 1-d array of nx values) packs its inputs without
\* failing, runs the integrator and returns a result whose y is finite.
C5_TestCallPacks ==
    \A c \in DOMAIN pc :
        (HCCalled(c) /\ inp[c].finit.shape = <<args.nx, args.nv>>
                     /\ inp[c].vinit.shape = <<args.nx>>
                     /\ inp[c].einit.shape = <<args.nx>>) =>
            /\ pc[c] # "ValueError"
            /\ ivp[c].invoked
            /\ pc[c] = "done" => \A p \in DOMAIN result[c].y.data : IsFinite(result[c].y.data[p])

\* the sum of F[i, j] * v[j] over the rows i of column j
RECURSIVE ColumnMoment(_, _, _)
ColumnMoment(F, j, i) ==
    IF i < 0 THEN R(0)
    ELSE RAdd(RMul(At2(F, i, j), At1(self.v, j)), ColumnMoment(F, j, i - 1))

\* the sum of the column moments of columns 0..j
RECURSIVE TotalMoment(_, _)
TotalMoment(F, j) ==
    IF j < 0 THEN R(0)
    ELSE RAdd(ColumnMoment(F, j, F.shape[1] - 1), TotalMoment(F, j - 1))

\* coef * (ne * V + dv * S)
FieldTerm(V, S) == RMul(R(coef), RAdd(RMul(self.ne, V), RMul(self.dv, S)))

\* C7 (as stated): dE/dt = coef * (ne * V + dv * S) where S sums F[i, j] * v[j]
\* over the spatial index i alone, not over the velocity index j.
C7_MomentOverXOnly ==
    \A c \in DOMAIN pc :
        HCEvaluated(c) =>
            LET d == encode(self, Arr(<<Len(Packed(c))>>, Packed(c)))
            IN  \A j \in 0..(args.nv - 1) :
                    Deriv(c)[args.nx * args.nv + 2]
                        = FieldTerm(d.V, ColumnMoment(d.F, j, args.nx - 1))

\* C7 (amended): dE/dt = coef * (ne * V + dv * S) where S sums F[i, j] * v[j]
\* over both the spatial index i and the velocity index j.
C7_MomentOverBothAxes ==
    \A c \in DOMAIN pc :
        HCEvaluated(c) =>
            LET d == encode(self, Arr(<<Len(Packed(c))>>, Packed(c)))
            IN  Deriv(c)[args.nx * args.nv + 2]
                    = FieldTerm(d.V, TotalMoment(d.F, args.nv - 1))

\* a derivative was evaluated on a grid with several velocities whose
\* column moments differ
C7_EvaluatedSeveralColumns ==
    \E c \in DOMAIN pc :
        /\ HCEvaluated(c) /\ args.nx >= 2 /\ args.nv >= 2
        /\ LET d == encode(self, Arr(<<Len(Packed(c))>>, Packed(c)))
           IN  ColumnMoment(d.F, 0, args.nx - 1) # ColumnMoment(d.F, 1, args.nx - 1)

\* F with the zero boundary in v: F inside the grid, 0 at j = -1 and j = nv
Fz(F, i, j) == IF j < 0 \/ j >= args.nv THEN R(0) ELSE At2(F, i, j)

\* (F[(i+1) mod nx, j] - F[(i-1) mod nx, j]) / (2 * dx)
DxPeriodic(F, i, j) ==
    RDiv(RSub(At2(F, (i + 1) % args.nx, j), At2(F, (i - 1 + args.nx) % args.nx, j)),
         RMul(R(2), self.dx))

\* (Fz[i, j+1] - Fz[i, j-1]) / (2 * dv)
DvZero(F, i, j) == RDiv(RSub(Fz(F, i, j + 1), Fz(F, i, j - 1)), RMul(R(2), self.dv))

\* C8: in every derivative evaluation dF/dx is the centered difference with
\* periodic wrap in x, dF/dv the centered difference with zero boundary in
\* v, dF/dt[i, j] = -v[j] * dF/dx[i, j] + E * dF/dv[i, j], and the derivative
\* arrays have shape (nx, nv).
C8_Stencils ==
    \A c \in DOMAIN pc :
        HCEvaluated(c) =>
            LET d    == encode(self, Arr(<<Len(Packed(c))>>, Packed(c)))
                dfdx == dfdxOf(self, d.F)
                dfdv == dfdvOf(self, d.F)
            IN  /\ dfdx.shape = <<args.nx, args.nv>>
                /\ dfdv.shape = <<args.nx, args.nv>>
                /\ dFdtOf(self, d.F, d.E).shape = <<args.nx, args.nv>>
                /\ \A ij \in Cells :
                      /\ At2(dfdx, ij[1], ij[2]) = DxPeriodic(d.F, ij[1], ij[2])
                      /\ At2(dfdv, ij[1], ij[2]) = DvZero(d.F, ij[1], ij[2])
                      /\ Deriv(c)[ij[1] * args.nv + ij[2] + 1]
                            = RAdd(RMul(RNeg(At1(self.v, ij[2])), DxPeriodic(d.F, ij[1], ij[2])),
                                   RMul(d.E, DvZero(d.F, ij[1], ij[2])))

\* a derivative was evaluated on a grid of at least 3 x 3 cells with a
\* nonzero field E and a nonzero x-derivative at the wrap
C8_EvaluatedWithWrap ==
    \E c \in DOMAIN pc :
        /\ HCEvaluated(c) /\ args.nx >= 3 /\ args.nv >= 3
        /\ LET d == encode(self, Arr(<<Len(Packed(c))>>, Packed(c)))
           IN  ~RIsZero(d.E) /\ ~RIsZero(DxPeriodic(d.F, 0, 0))

\* column t of the solution matrix y: y[:, t]
ColumnOf(y, t) == Arr(<<y.shape[1]>>, [k \in 1..y.shape[1] |-> At2(y, k - 1, t)])

\* C10: after solve returns, for every time index t,
\* (result.f[:, :, t], result.V[t], result.E[t]) = _encode(y[:, t]):
\* result.f[i, j, t] = y[i * nv + j, t], result.V[t] = y[nx * nv, t],
\* result.E[t] = y[nx * nv + 1, t].
C10_TrajectoryDecode ==
    \A c \in DOMAIN pc :
        (kind = "HC" /\ pc[c] = "done") =>
            LET r     == result[c]
                ntime == size(r.t)
            IN  /\ r.y.shape = <<args.nx * args.nv + 2, ntime>>
                /\ r.f.shape = <<args.nx, args.nv, ntime>>
                /\ r.V.shape = <<ntime>>
                /\ r.E.shape = <<ntime>>
                /\ \A t \in 0..(ntime - 1) :
                      LET d == encode(self, ColumnOf(r.y, t))
                      IN  /\ At1(r.V, t) = d.V /\ d.V = At2(r.y, args.nx * args.nv, t)
                          /\ At1(r.E, t) = d.E /\ d.E = At2(r.y, args.nx * args.nv + 1, t)
                          /\ \A ij \in Cells :
                                /\ At3(r.f, ij[1], ij[2], t) = At2(d.F, ij[1], ij[2])
                                /\ At3(r.f, ij[1], ij[2], t)
                                      = At2(r.y, ij[1] * args.nv + ij[2], t)

\* solve returned a trajectory of several time points on a non-square grid
\* whose columns differ
C10_ReturnedTrajectory ==
    \E c \in DOMAIN pc :
        /\ kind = "HC" /\ pc[c] = "done"
        /\ args.nx >= 2 /\ args.nv >= 2 /\ args.nx # args.nv
        /\ size(result[c].t) >= 2
        /\ ColumnOf(result[c].y, 0) # ColumnOf(result[c].y, 1)

(* ------------------------- shared-instance claim ----------------------- *)
\* the loop of _setup run from iteration (ix, iy) to its end on fields s
RECURSIVE setupFrom(_, _, _)
setupFrom(s, ix, iy) ==
    CHOOSE r \in
        {(IF iy + 1 < size(s1.ky) THEN setupFrom(s1, ix, iy + 1)
          ELSE IF ix + 1 < size(s1.kx) THEN setupFrom(s1, ix + 1, 0)
          ELSE s1) : s1 \in {setupIter(s, ix, iy)}} : TRUE

\* the fields of a fresh instance constructed from arguments a
FreshFields(k, a) ==
    IF k = "HM" THEN setupFrom(hmFields(a.kmax, a.nx, a.ny), 0, 0) ELSE hcFields(a)

\* the flat initial state solve hands to the integrator
FlatInit(k, in) ==
    IF k = "HM" THEN ravel(in.phiinit).data
    ELSE concatenate(packParts(in.finit, in.vinit, in.einit)).data

\* the integrator's columns after n derivative evaluations, the derivative
\* at the initial state being dy
RECURSIVE AloneCols(_, _, _, _)
AloneCols(k, y0, dy, n) ==
    IF n = 0 THEN <<y0>>
    ELSE LET prev == AloneCols(k, y0, dy, n - 1)
         IN  Append(prev, IF k = "HM" THEN cstep(prev[n], dy) ELSE rstep(prev[n], dy))

\* what solve with arguments in returns when run alone on an instance with
\* fields s, the integrator evaluating n times
AloneResult(k, s, in, n) ==
    LET y0   == FlatInit(k, in)
        cols == AloneCols(k, y0, IF k = "HM" THEN hm_dfdt(s, y0) ELSE hc_dfdt(s, y0), n)
    IN  IF k = "HM" THEN hmResult(s, cols) ELSE hcResult(s, cols)

\* C6: for both models, under any interleaving of solve and to_xarray calls
\* of several callers on one instance, the fields set at construction keep
\* their constructed values, to_xarray leaves the result as solve returned
\* it, and each solve returns what it returns alone on a fresh instance.
C6_SharedInstanceReadOnly ==
    ctor.pc = "built" =>
        \A fresh \in {FreshFields(kind, args)} :
            /\ self = fresh
            /\ \A c \in DOMAIN pc :
                  pc[c] \in {"done", "exported"} =>
                      result[c] = AloneResult(kind, fresh, inp[c], ivp[c].nfev)

\* two callers with different arguments both finished on one instance, one
\* of them having exported its result
C6_TwoCallersFinished ==
    /\ pc["a"] = "exported" /\ pc["b"] \in {"done", "exported"}
    /\ inp["a"] # inp["b"]
=============================================================================
